---- MODULE Spec2Model ----
(***************************************************************************)
(* A model of theanets/graph.py: the Network class (topology builder,      *)
(* graph cache, function cache, persistence, error and loss).              *)
(*                                                                         *)
(* Python values are modelled as follows.                                  *)
(*  - a str is a sequence of tokens; formatting and concatenation are      *)
(*    sequence concatenation, a number is formatted with ToString;         *)
(*  - the keyword arguments of a call are a sequence of <<key,             *)
(*    value>> pairs with distinct keys, in the order the caller wrote      *)
(*    them: a dict keeps and renders its items in insertion order;         *)
(*  - a list position is 0-based as in the source (outputs[i] of the       *)
(*    source is outputs[i+1] of the TLA+ sequence);                        *)
(*  - a symbolic expression is a record naming what it was built from;     *)
(*  - hashlib.md5 is taken to be collision free, so that a key is the      *)
(*    string that was digested.                                            *)
(***************************************************************************)
EXTENDS Integers, Sequences, FiniteSets, TLC

VARIABLES
    phase,        \* "new" before Network.__init__ ran, "ready" after, "error" if it raised
    kwargs,       \* Network.kwargs: the construction options
    layers,       \* Network.layers
    graphs,       \* Network._graphs: key -> the cached tuple
    functions,    \* Network._functions: key -> the compiled function
    calls,        \* number of public calls made so far (bounded by MaxCalls)
    history,      \* every build_graph invocation and feed_forward call so far
    ret,          \* what the last call returned
    file,         \* the record that save pickled, NoFile before
    snapshot,     \* the layers as they were when save ran
    num           \* numeric values of x, of the weights and of the layers' activations

vars == <<phase, kwargs, layers, graphs, functions, calls, history, ret, file, snapshot, num>>

(***************************************************************************)
(* Bounds                                                                  *)
(***************************************************************************)
MaxLayers == 4
MaxCalls == 2
MaxOpts == 2

(***************************************************************************)
(* Python helpers                                                          *)
(***************************************************************************)
Min(a, b) == IF a < b THEN a ELSE b
Max(a, b) == IF a > b THEN a ELSE b

\* s[start:]
PySliceFrom(s, start) ==
    LET n == Len(s)
        b == IF start < 0 THEN Max(n + start, 0) ELSE Min(start, n)
    IN  SubSeq(s, b + 1, n)

\* d.get(k, default) on a mapping
Get(d, k, default) == IF k \in DOMAIN d THEN d[k] ELSE default

\* dict.update: the entries of d override those of kw
Update(kw, d) ==
    [k \in DOMAIN kw \cup DOMAIN d |-> IF k \in DOMAIN d THEN d[k] ELSE kw[k]]

\* kwargs.get(k, default) on the keyword arguments of a call
KwHas(kw, k) == \E i \in 1..Len(kw) : kw[i][1] = k
KwGet(kw, k, default) ==
    IF KwHas(kw, k) THEN kw[CHOOSE i \in 1..Len(kw) : kw[i][1] = k][2] ELSE default

\* two keyword-argument lists are the same mapping: same keys, same values
SameMapping(a, b) ==
    /\ \A i \in 1..Len(a) : KwHas(b, a[i][1]) /\ KwGet(b, a[i][1], 0) = a[i][2]
    /\ \A i \in 1..Len(b) : KwHas(a, b[i][1])

RECURSIVE Concat(_)
Concat(ss) == IF ss = <<>> THEN <<>> ELSE Head(ss) \o Concat(Tail(ss))

\* str(d) of a dict: "{'k': v, 'k2': v2}", items in insertion order
StrDict(kw) ==
    <<"{">> \o
    Concat([i \in 1..Len(kw) |->
        (IF i > 1 THEN <<", ">> ELSE <<>>) \o
        <<"'", kw[i][1], "'", ": ", ToString(kw[i][2])>>]) \o
    <<"}">>

(***************************************************************************)
(* The layers module (not part of graph.py): the factory and the Layer     *)
(* interface that graph.py consumes.                                       *)
(***************************************************************************)
Registry == {"input", "feedforward", "rnn", "bidirectional"}

Lower(s) ==
    CASE s = "RNN" -> "rnn"
      [] s = "Feedforward" -> "feedforward"
      [] s = "Bidirectional" -> "bidirectional"
      [] s = "Input" -> "input"
      [] OTHER -> s

\* l.__class__.__name__ of the layer that layers.build(form, ...) makes
ClassName(form) ==
    CASE Lower(form) = "rnn" -> "RNN"
      [] Lower(form) = "feedforward" -> "Feedforward"
      [] Lower(form) = "bidirectional" -> "Bidirectional"
      [] Lower(form) = "input" -> "Input"
      [] OTHER -> form

\* number of parameter handles of a layer of the given class
NumParams(cls) ==
    CASE cls = "Input" -> 0
      [] cls = "RNN" -> 3
      [] OTHER -> 2

\* layers.build(form, **kw): parameters start at the given initial values
Build(form, kw, init) ==
    [cls |-> ClassName(form),
     name |-> kw.name,
     size |-> kw.size,
     nin |-> Get(kw, "nin", <<>>),
     activation |-> Get(kw, "activation", "none"),
     params |-> [j \in 1..NumParams(ClassName(form)) |-> init]]

\* layer.output(inputs, noise=, dropout=) for the layer at position i, called
\* with args = [inputs, noise, dropout]: the output expression, the layer's
\* monitors and its updates
LayerOutput(layer, i, args) ==
    [out |-> [layer |-> i, inputs |-> args.inputs, noise |-> args.noise,
              dropout |-> args.dropout],
     mon |-> <<[name |-> layer.name, expr |-> [layer |-> i]]>>,
     upd |-> IF layer.cls = "Input" THEN <<>> ELSE <<[param |-> <<i, 1>>, expr |-> [layer |-> i]]>>]

(***************************************************************************)
(* Network.setup_layers / setup_decoder                                    *)
(***************************************************************************)
\* In the loop of setup_layers a state st = [form, kw] holds the local `form`
\* and the local dict `kwargs`; n is len(self.layers).

\* lines 182-188: the defaults; prevName is self.layers[-1].name
Defaults(kws, n, prevName) ==
    [form |-> "feedforward",
     kw |-> [name |-> <<"hid", ToString(n)>>,
             inputs |-> prevName \o <<".out">>,
             activation |-> Get(kws, "hidden_activation", "logistic")]]

\* lines 192-193
IntStep(st, spec) ==
    IF spec.kind = "int" THEN [st EXCEPT !.kw = Update(st.kw, [size |-> spec.size])] ELSE st

\* lines 202-213 for one element of a tuple or list spec
ScanEl(st, el) ==
    IF el.t = "class" THEN [st EXCEPT !.form = el.v]
    ELSE IF el.t = "str"
    THEN IF Lower(el.v) \in Registry
         THEN [st EXCEPT !.form = el.v]
         ELSE [st EXCEPT !.kw = Update(st.kw, [activation |-> el.v])]
    ELSE IF el.t = "int" THEN [st EXCEPT !.kw = Update(st.kw, [size |-> el.v])]
    ELSE st

\* the scan of lines 201-213 from the i-th element on
RECURSIVE ScanTuple(_, _, _)
ScanTuple(els, i, st) ==
    IF i > Len(els) THEN st ELSE ScanTuple(els, i + 1, ScanEl(st, els[i]))

\* line 214, 221
Named(st, n) == [st EXCEPT !.kw = Update(st.kw, [name |-> <<st.form, ToString(n)>>])]

\* lines 200-214
TupleStep(st, spec, n) ==
    IF spec.kind = "tuple" THEN Named(ScanTuple(spec.els, 1, st), n) ELSE st

\* lines 220-221
WithForm(st, form, n) == Named([st EXCEPT !.form = form], n)

\* lines 218-222
DictStep(st, spec, n) ==
    IF spec.kind = "dict"
    THEN IF "form" \in DOMAIN spec.d
         THEN [WithForm(st, Lower(spec.d.form), n) EXCEPT !.kw = Update(@, spec.d)]
         ELSE [st EXCEPT !.kw = Update(st.kw, spec.d)]
    ELSE st

\* lines 224-226
BidirectionalStep(st, n) ==
    IF Lower(st.form) = "bidirectional"
    THEN [st EXCEPT !.kw = Update(st.kw,
                        [name |-> <<"bd", Get(st.kw, "worker", "rnn"), ToString(n)>>])]
    ELSE st

\* line 228
BuildFrom(st, init) == Build(st.form, st.kw, init)

\* One pass of the loop of setup_layers (lines 177-228) when the layers
\* sofar exist: the layer that is appended
EncoderLayer(kws, spec, sofar, init) ==
    IF spec.kind = "layer" THEN spec.layer
    ELSE BuildFrom(
            BidirectionalStep(
                DictStep(
                    TupleStep(
                        IntStep(Defaults(kws, Len(sofar), sofar[Len(sofar)].name), spec),
                        spec, Len(sofar)),
                    spec, Len(sofar)),
                Len(sofar)),
            init)

\* sizes[-1] if back <= 1 else sizes[-back:] (line 256)
DecoderNin(sizes, back) ==
    IF back <= 1 THEN <<sizes[Len(sizes)]>> ELSE PySliceFrom(sizes, -back)

\* setup_decoder (lines 251-258): the decoder for the layers so far
SetupDecoder(kws, sofar, init) ==
    Build("feedforward",
          [name |-> <<"out">>,
           nin |-> DecoderNin([i \in 1..Len(sofar) |-> sofar[i].size],
                              Get(kws, "decode_from", 1)),
           size |-> kws.layers[Len(kws.layers)].size,
           activation |-> Get(kws, "output_activation", "linear")],
          init)

\* line 231: the decoder is appended to the layers so far
WithDecoder(kws, sofar, init) == Append(sofar, SetupDecoder(kws, sofar, init))

\* the loop of setup_layers (lines 175-228) from the i-th spec on
RECURSIVE Encoders(_, _, _, _, _)
Encoders(kws, specs, i, sofar, init) ==
    IF i > Len(specs) THEN sofar
    ELSE Encoders(kws, specs, i + 1,
                  Append(sofar, EncoderLayer(kws, specs[i], sofar, init)), init)

\* lines 171-172
InputLayer(spec, init) == Build("input", [name |-> <<"in">>, size |-> spec.size], init)

EncodingLayersAll(kws) == kws.layers

\* encoding_layers (line 284): all but the last element
EncodingLayers(kws) == SubSeq(kws.layers, 1, Len(kws.layers) - 1)

\* setup_layers (lines 164-231); "IndexError" when specs.pop(0) finds nothing
SetupLayers(kws, init) ==
    IF "layers" \notin DOMAIN kws THEN <<>>
    ELSE IF EncodingLayers(kws) = <<>> THEN "IndexError"
    ELSE WithDecoder(kws,
             Encoders(kws, EncodingLayers(kws), 2,
                      <<InputLayer(EncodingLayers(kws)[1], init)>>, init),
             init)

(***************************************************************************)
(* Network._hash and Network.build_graph                                   *)
(***************************************************************************)
HashLayersOnly(kw, ls) ==
    Concat([i \in 1..Len(ls) |-> <<ls[i].cls>> \o ls[i].name \o <<ToString(ls[i].size)>>])

\* _hash (lines 297-303): the string that is digested
Hash(kw, ls) ==
    StrDict(kw) \o
    Concat([i \in 1..Len(ls) |-> <<ls[i].cls>> \o ls[i].name \o <<ToString(ls[i].size)>>])

\* symbolic expressions: the input variable self.x, the output of the layer
\* at (0-based) position i, the error of the output at position i
XVar == [e |-> "x", i |-> 0]
OutRef(i) == [e |-> "out", i |-> i]
ErrOf(i) == [e |-> "err", i |-> i]

LayerArgsLastOnly(i, n, kws, kw) ==
    IF i = 0
    THEN [inputs |-> [list |-> FALSE, of |-> <<[e |-> "x", i |-> 0]>>],
          noise |-> KwGet(kw, "input_noise", 0),
          dropout |-> KwGet(kw, "input_dropouts", 0)]
    ELSE IF i = n - 1
    THEN [inputs |-> [list |-> TRUE, of |-> <<[e |-> "out", i |-> i - 1]>>],
          noise |-> KwGet(kw, "hidden_noise", 0),
          dropout |-> KwGet(kw, "hidden_dropouts", 0)]
    ELSE [inputs |-> [list |-> FALSE, of |-> <<[e |-> "out", i |-> i - 1]>>],
          noise |-> 0,
          dropout |-> 0]

\* lines 334-347: what layer i of n is called with, when the outputs of the
\* layers 0..i-1 exist
LayerArgs(i, n, kws, kw) ==
    IF i = 0
    THEN [inputs |-> [list |-> FALSE, of |-> <<XVar>>],
          noise |-> KwGet(kw, "input_noise", 0),
          dropout |-> KwGet(kw, "input_dropouts", 0)]
    ELSE IF i = n - 1
    THEN [inputs |-> [list |-> TRUE,
                      of |-> PySliceFrom([j \in 1..i |-> OutRef(j - 1)],
                                         -Get(kws, "decode_from", 1))],
          noise |-> KwGet(kw, "hidden_noise", 0),
          dropout |-> KwGet(kw, "hidden_dropouts", 0)]
    ELSE [inputs |-> [list |-> FALSE, of |-> <<OutRef(i - 1)>>],
          noise |-> 0,
          dropout |-> 0]

\* the call of line 348 for the layer at position i
OutputCall(i, ls, kws, kw) == LayerOutput(ls[i + 1], i, LayerArgs(i, Len(ls), kws, kw))

\* lines 349-351: the three lists after one more layer's output
Collect(acc, o) ==
    [outputs |-> Append(acc.outputs, o.out),
     monitors |-> acc.monitors \o o.mon,
     updates |-> acc.updates \o o.upd]

\* the loop of build_graph (lines 332-351) from the layer at position i on
RECURSIVE Walk(_, _, _, _, _)
Walk(i, ls, kws, kw, acc) ==
    IF i >= Len(ls) THEN acc
    ELSE Walk(i + 1, ls, kws, kw, Collect(acc, OutputCall(i, ls, kws, kw)))

GraphMissAlways(key, g) == TRUE

\* whether build_graph stores a new entry (line 331)
GraphMiss(key, g) == key \notin DOMAIN g

\* The identity of the object that a call made with the options kw stores
\* under a key: objects stored by calls with different options differ, and so
\* do two objects stored under one key one after the other.
NewId(kw, key, cache) ==
    [kw |-> kw, gen |-> IF key \in DOMAIN cache THEN cache[key].id.gen + 1 ELSE 1]

\* the tuple that line 352 stores
NewEntry(id, w) ==
    [id |-> id, outputs |-> w.outputs, monitors |-> w.monitors, updates |-> w.updates]

\* the cache g with entry e under key (line 352)
Store(g, key, e) == [k \in DOMAIN g \cup {key} |-> IF k = key THEN e ELSE g[k]]

\* build_graph (lines 330-353) on the cache g, for the key of kw: the cache
\* after the call, the key, and the number of layer.output() calls made
BuildGraphCall(kw, key, g, ls, kws) ==
    IF GraphMiss(key, g)
    THEN [graphs |-> Store(g, key,
                        NewEntry(NewId(kw, key, g),
                                 Walk(0, ls, kws, kw,
                                      [outputs |-> <<>>, monitors |-> <<>>, updates |-> <<>>]))),
          key |-> key, outs |-> Len(ls)]
    ELSE [graphs |-> g, key |-> key, outs |-> 0]

\* the record kept of one build_graph invocation, made by the caller or by
\* feed_forward or loss: the options, the tuple returned, the number of
\* layer.output() calls it made
Invocation(kw, r) ==
    [op |-> "build_graph", kw |-> kw, id |-> r.graphs[r.key].id, outs |-> r.outs]

\* the record kept of one feed_forward call: the options, the function used
Request(kw, id, outs) ==
    [op |-> "feed_forward", kw |-> kw, id |-> id, outs |-> outs]

\* extra_monitors (line 511)
ExtraMonitors(outputs) == <<>>

\* the monitor list after lines 543-544 of loss
LossMonitors(monitors, outputs) ==
    <<[name |-> <<"err">>, expr |-> ErrOf(Len(outputs) - 1)]>> \o monitors \o ExtraMonitors(outputs)

(***************************************************************************)
(* Numbers. A float is a fraction [n, d] of integers; d = 0 is the result  *)
(* of a division by zero. A matrix is a sequence of rows.                  *)
(***************************************************************************)
Q(n, d) == [n |-> n, d |-> d]
QAdd(a, b) == Q(a.n * b.d + b.n * a.d, a.d * b.d)
QMul(k, a) == Q(k * a.n, a.d)
QEq(a, b) == a.d # 0 /\ b.d # 0 /\ a.n * b.d = b.n * a.d

Abs(v) == IF v < 0 THEN -v ELSE v

RECURSIVE SumSeq(_)
SumSeq(s) == IF s = <<>> THEN 0 ELSE Head(s) + SumSeq(Tail(s))

\* m.sum() of a matrix
MatSum(m) == SumSeq([r \in 1..Len(m) |-> SumSeq(m[r])])
\* number of entries of a matrix
MatCount(m) == SumSeq([r \in 1..Len(m) |-> Len(m[r])])
\* a - b and a * b, elementwise
MatSub(a, b) == [r \in 1..Len(a) |-> [c \in 1..Len(a[r]) |-> a[r][c] - b[r][c]]]
MatMul(a, b) == [r \in 1..Len(a) |-> [c \in 1..Len(a[r]) |-> a[r][c] * b[r][c]]]
\* abs(m), elementwise
MatAbs(m) == [r \in 1..Len(m) |-> [c \in 1..Len(m[r]) |-> Abs(m[r][c])]]

ErrorWeightedByCount(weighted, output, x, weights) ==
    LET err == MatSub(output, x)
        sq == MatMul(err, err)
    IN  IF weighted
        THEN Q(MatSum(MatMul(MatMul(weights, err), err)), MatCount(weights))
        ELSE Q(MatSum(sq), MatCount(sq))

\* Network.error (lines 148-151) evaluated at x, weights and the output
ErrorValue(weighted, output, x, weights) ==
    LET err == MatSub(output, x)
        sq == MatMul(err, err)
    IN  IF weighted
        THEN Q(MatSum(MatMul(MatMul(weights, err), err)), MatSum(weights))
        ELSE Q(MatSum(sq), MatCount(sq))

\* is_weighted (line 263)
IsWeighted(kws) == Get(kws, "weighted", FALSE)

\* m.mean(axis=0).sum() of a matrix
MeanAxis0Sum(m) == Q(MatSum(m), Len(m))

RECURSIVE QSum(_)
QSum(s) == IF s = <<>> THEN Q(0, 1) ELSE QAdd(Head(s), QSum(Tail(s)))

\* the parameters of the network (line 368), in layer order
Params(ls) == Concat([i \in 1..Len(ls) |-> ls[i].params])

\* hiddens = outputs[1:-1] (line 545): the positions of the hidden outputs
Hiddens(ls) == [i \in 1..(Len(ls) - 2) |-> i]

\* sum(expr) of one regularizer of lines 547-552, evaluated
TermValue(weight, ls, env) ==
    LET ps == Params(ls)
        hs == Hiddens(ls)
    IN  CASE weight = "weight_l1" -> Q(SumSeq([j \in 1..Len(ps) |-> Abs(ps[j])]), 1)
          [] weight = "weight_l2" -> Q(SumSeq([j \in 1..Len(ps) |-> ps[j] * ps[j]]), 1)
          [] weight = "hidden_l1" ->
                QSum([j \in 1..Len(hs) |-> MeanAxis0Sum(MatAbs(env.h[hs[j]]))])
          [] weight = "hidden_l2" ->
                QSum([j \in 1..Len(hs) |-> MeanAxis0Sum(MatMul(env.h[hs[j]], env.h[hs[j]]))])
          [] weight = "contractive" -> Q(SumSeq([j \in 1..Len(hs) |-> env.g[hs[j]]]), 1)

\* the regularizers of loss in the order of the dict (lines 546-553)
Regularizers == <<"weight_l1", "weight_l2", "hidden_l1", "hidden_l2", "contractive">>

EnabledNonZero(kw, weight) == KwGet(kw, weight, 0) # 0

\* the filter of line 556
Enabled(kw, weight) == KwGet(kw, weight, 0) > 0

\* the terms that lines 554-556 add to the error: <<weight, regularizer>>
Regularization(kw) ==
    LET all == [i \in 1..Len(Regularizers) |-> <<KwGet(kw, Regularizers[i], 0), Regularizers[i]>>]
    IN  SelectSeq(all, LAMBDA t : Enabled(kw, t[2]))

RECURSIVE SumTerms(_, _, _)
SumTerms(terms, ls, env) ==
    IF terms = <<>> THEN Q(0, 1)
    ELSE QAdd(QMul(Head(terms)[1], TermValue(Head(terms)[2], ls, env)),
              SumTerms(Tail(terms), ls, env))

\* err + sum(regularization) (line 557), evaluated
LossValue(kw, kws, ls, env) ==
    QAdd(ErrorValue(IsWeighted(kws), env.y, env.x, env.w),
         SumTerms(Regularization(kw), ls, env))

\* the literal example: x, the output y, the weights w; the activations h of
\* the hidden layers and the values g of their contractive terms
LiteralEnv ==
    [x |-> <<<<1, 0>>, <<0, 1>>>>,
     y |-> <<<<0, 0>>, <<0, 0>>>>,
     w |-> <<<<1, 1>>, <<0, 0>>>>,
     h |-> [i \in 1..(MaxLayers + 1) |-> <<<<1>>, <<-2>>>>],
     g |-> [i \in 1..(MaxLayers + 1) |-> 3]]

NoFile == [klass |-> "none"]

(***************************************************************************)
(* The calls                                                               *)
(***************************************************************************)
NoGraphs == [k \in {} |-> 0]

\* Network.__init__ (lines 101-107)
Construct ==
    /\ phase = "new"
    /\ \E ls \in {SetupLayers(kwargs, 0)} :
           IF ls = "IndexError"
           THEN /\ phase' = "error"
                /\ layers' = <<>>
           ELSE /\ phase' = "ready"
                /\ layers' = ls
    /\ ret' = [op |-> "init"]
    /\ UNCHANGED <<kwargs, graphs, functions, calls, history, file, snapshot, num>>

\* net.build_graph(**kw)
BuildGraph(kw) ==
    /\ phase = "ready"
    /\ calls < MaxCalls
    /\ \E r \in {BuildGraphCall(kw, Hash(kw, layers), graphs, layers, kwargs)} :
           /\ graphs' = r.graphs
           /\ history' = history \cup {Invocation(kw, r)}
           /\ ret' = [op |-> "build_graph", kw |-> kw, key |-> r.key,
                      id |-> r.graphs[r.key].id,
                      monitors |-> r.graphs[r.key].monitors]
    /\ calls' = calls + 1
    /\ UNCHANGED <<phase, kwargs, layers, functions, file, snapshot, num>>

\* whether feed_forward compiles a new function (line 431)
FunctionMiss(key, f) == key \notin DOMAIN f

\* net.feed_forward(x, **kw) (lines 430-435)
FeedForward(kw) ==
    /\ phase = "ready"
    /\ calls < MaxCalls
    /\ \E key \in {Hash(kw, layers)} :
         IF FunctionMiss(key, functions)
         THEN \E r \in {BuildGraphCall(kw, key, graphs, layers, kwargs)} :
              \E fn \in {[id |-> NewId(kw, key, functions), graph |-> r.graphs[key].id,
                          outputs |-> r.graphs[key].outputs,
                          updates |-> r.graphs[key].updates]} :
                  /\ graphs' = r.graphs
                  /\ history' = history \cup {Invocation(kw, r), Request(kw, fn.id, r.outs)}
                  /\ functions' = Store(functions, key, fn)
                  /\ ret' = [op |-> "feed_forward", kw |-> kw, key |-> key, id |-> fn.id]
         ELSE /\ ret' = [op |-> "feed_forward", kw |-> kw, key |-> key,
                         id |-> functions[key].id]
              /\ history' = history \cup {Request(kw, functions[key].id, 0)}
              /\ UNCHANGED <<graphs, functions>>
    /\ calls' = calls + 1
    /\ UNCHANGED <<phase, kwargs, layers, file, snapshot, num>>

\* net.predict(x) (line 454)
Predict ==
    FeedForward(<<>>)

\* net.loss(**kw) (lines 541-557); the list `monitors` is the list object
\* held by the cached tuple, so insert and extend change the cache entry
Loss(kw) ==
    /\ phase = "ready"
    /\ calls < MaxCalls
    /\ \E r \in {BuildGraphCall(kw, Hash(kw, layers), graphs, layers, kwargs)} :
       \E mons \in {LossMonitors(r.graphs[r.key].monitors, r.graphs[r.key].outputs)} :
           /\ graphs' = [r.graphs EXCEPT ![r.key].monitors = mons]
           /\ history' = history \cup {Invocation(kw, r)}
           /\ ret' = [op |-> "loss", kw |-> kw, key |-> r.key, id |-> r.graphs[r.key].id,
                      monitors |-> mons, updates |-> r.graphs[r.key].updates,
                      terms |-> Regularization(kw),
                      value |-> LossValue(kw, kwargs, layers, num)]
    /\ calls' = calls + 1
    /\ UNCHANGED <<phase, kwargs, layers, functions, file, snapshot, num>>

\* net.error(output) (lines 148-151), evaluated at num
ErrorCall ==
    /\ phase = "ready"
    /\ ret.op # "error"
    /\ ret' = [op |-> "error", value |-> ErrorValue(IsWeighted(kwargs), num.y, num.x, num.w)]
    /\ UNCHANGED <<phase, kwargs, layers, graphs, functions, calls, history, file, snapshot, num>>

(***************************************************************************)
(* Persistence: save, load_params, load                                    *)
(***************************************************************************)
\* '{}-values'.format(layer.name) (lines 470, 493)
ValuesKey(name) == name \o <<"-values">>

\* the dict that save pickles (lines 468-471): a later layer's entry
\* replaces an earlier one stored under the same key
SavedState(kws, ls) ==
    LET keys == {ValuesKey(ls[i].name) : i \in 1..Len(ls)}
        last(k) == CHOOSE i \in 1..Len(ls) :
                      /\ ValuesKey(ls[i].name) = k
                      /\ \A j \in (i + 1)..Len(ls) : ValuesKey(ls[j].name) # k
    IN  [klass |-> "Network", kwargs |-> kws, values |-> [k \in keys |-> ls[last(k)].params]]

\* for p, v in zip(params, values): p.set_value(v) (lines 493-494)
ZipSet(params, values) ==
    [j \in 1..Len(params) |-> IF j <= Len(values) THEN values[j] ELSE params[j]]

\* the layer ls[j] after lines 493-494 ran for it
LayerLoaded(j, ls, saved) ==
    [ls[j] EXCEPT !.params = ZipSet(ls[j].params, saved.values[ValuesKey(ls[j].name)])]

\* the layers whose key is not in the record
Missing(ls, saved) == {j \in 1..Len(ls) : ValuesKey(ls[j].name) \notin DOMAIN saved.values}

LoadParamsSkipping(ls, saved, missing) ==
    [layers |-> [j \in 1..Len(ls) |->
                    IF j \in missing THEN ls[j] ELSE LayerLoaded(j, ls, saved)],
     raised |-> "none"]

\* the loop of load_params (lines 492-494) when the layers at the positions
\* `missing` have no key in the record: saved[key] raises KeyError at the
\* first of them, and the layers before it are set
LoadParamsLoop(ls, saved, missing) ==
    [layers |-> [j \in 1..Len(ls) |->
                    IF \A m \in missing : j < m THEN LayerLoaded(j, ls, saved) ELSE ls[j]],
     raised |-> IF missing = {} THEN "none" ELSE "KeyError"]

\* the values a layer's parameters start with: layers draws them at random
InitVals == {0, 1}
\* the values training leaves in a parameter
ParamVals == {0, 1, 2}

\* net.save(filename) (lines 468-476)
Save ==
    /\ phase = "ready"
    /\ calls < MaxCalls + 1
    /\ file' = SavedState(kwargs, layers)
    /\ snapshot' = layers
    /\ ret' = [op |-> "save"]
    /\ calls' = calls + 1
    /\ UNCHANGED <<phase, kwargs, layers, graphs, functions, history, num>>

\* net.load_params(filename) (lines 488-495) on a file that save wrote
LoadParams ==
    /\ phase = "ready"
    /\ calls < MaxCalls + 1
    /\ file # NoFile
    /\ \E r \in {LoadParamsLoop(layers, file, Missing(layers, file))} :
           /\ layers' = r.layers
           /\ ret' = [op |-> "load_params", raised |-> r.raised, before |-> layers]
    /\ calls' = calls + 1
    /\ UNCHANGED <<phase, kwargs, graphs, functions, history, file, snapshot, num>>

\* net = Network(**kws): another network takes the place of the current one
New(kws, init) ==
    /\ calls < MaxCalls + 1
    /\ kwargs' = kws
    /\ phase' = "ready"
    /\ layers' = SetupLayers(kws, init)
    /\ graphs' = NoGraphs
    /\ functions' = NoGraphs
    /\ history' = {}
    /\ ret' = [op |-> "init"]
    /\ calls' = calls + 1
    /\ UNCHANGED <<file, snapshot, num>>

\* net = load(filename) (lines 49-57) with no override: the network built
\* from the pickled kwargs, after load_params
Load(init) ==
    /\ calls < MaxCalls + 1
    /\ file # NoFile
    /\ \E fresh \in {SetupLayers(file.kwargs, init)} :
       \E r \in {LoadParamsLoop(fresh, file, Missing(fresh, file))} :
           /\ kwargs' = file.kwargs
           /\ layers' = r.layers
           /\ ret' = [op |-> "load", raised |-> r.raised, klass |-> file.klass]
    /\ phase' = "ready"
    /\ graphs' = NoGraphs
    /\ functions' = NoGraphs
    /\ history' = {}
    /\ calls' = calls + 1
    /\ UNCHANGED <<file, snapshot, num>>

(***************************************************************************)
(* Inputs                                                                  *)
(***************************************************************************)
\* keyword argument lists of at most n items over the given <<key, value>> pairs
KwSeqs(pairs, n) ==
    {s \in UNION {[1..m -> pairs] : m \in 0..n} :
        \A i, j \in 1..Len(s) : i # j => s[i][1] # s[j][1]}

IntSpec(n) == [kind |-> "int", size |-> n]

\* the options of the cache specification's calls
CachePairs == {<<"input_noise", 1>>, <<"input_noise", 2>>, <<"hidden_noise", 3>>}
CacheOptions == KwSeqs(CachePairs, MaxOpts)

\* the networks of the cache specification: integer topologies
CacheKwargs ==
    LET tops == {[i \in 1..n |-> IntSpec(i + 1)] : n \in 2..MaxLayers}
    IN  {[layers |-> t] : t \in tops} \cup {[layers |-> t, decode_from |-> 2] : t \in tops}

(***************************************************************************)
(* Spec: one constructed Network and its caches                            *)
(***************************************************************************)
Init ==
    /\ kwargs \in CacheKwargs
    /\ phase = "ready"
    /\ layers = SetupLayers(kwargs, 0)
    /\ graphs = NoGraphs
    /\ functions = NoGraphs
    /\ calls = 0
    /\ history = {}
    /\ ret = [op |-> "init"]
    /\ file = NoFile
    /\ snapshot = <<>>
    /\ num = LiteralEnv

CallBuildGraph == \E kw \in CacheOptions : BuildGraph(kw)
CallFeedForward == \E kw \in CacheOptions : FeedForward(kw)
CallLoss == \E kw \in CacheOptions : Loss(kw)

Next ==
    \/ CallBuildGraph
    \/ CallFeedForward
    \/ Predict
    \/ CallLoss

Spec == Init /\ [][Next]_vars

(***************************************************************************)
(* SpecBuild: construction of a Network from a topology spec, and the      *)
(* first build_graph on it                                                 *)
(***************************************************************************)
\* a Layer instance built by the caller
PreBuilt ==
    [cls |-> "Feedforward", name |-> <<"pre">>, size |-> 4, nin |-> <<>>,
     activation |-> "relu", params |-> <<0, 0>>]

\* the encoding elements of a topology spec: an integer, tuples, mappings, a
\* Layer instance
EncSpecs ==
    {IntSpec(3),
     [kind |-> "tuple", els |-> <<[t |-> "int", v |-> 3], [t |-> "str", v |-> "tanh"]>>],
     [kind |-> "tuple", els |-> <<[t |-> "str", v |-> "RNN"], [t |-> "int", v |-> 2]>>],
     [kind |-> "tuple", els |-> <<[t |-> "int", v |-> 2], [t |-> "class", v |-> "RNN"]>>],
     [kind |-> "dict", d |-> [size |-> 3, name |-> <<"out">>]],
     [kind |-> "dict", d |-> [form |-> "Bidirectional", size |-> 2, worker |-> "lstm"]],
     [kind |-> "layer", layer |-> PreBuilt]}

\* topology specs of 1 to MaxLayers elements; the first and the last element
\* are integers (the input and the output size)
Topologies ==
    {t \in UNION {[1..n -> EncSpecs \cup {IntSpec(2)}] : n \in 1..MaxLayers} :
        /\ t[1] = IntSpec(2)
        /\ t[Len(t)] = IntSpec(2)
        /\ \A i \in 2..(Len(t) - 1) : t[i] \in EncSpecs}

DecodeFroms == {-1, 0, 1, 2, 3}

BuildKwargs ==
    {[layers |-> t] : t \in Topologies}
    \cup {[layers |-> t, decode_from |-> k] : t \in Topologies, k \in DecodeFroms}
    \cup {[weighted |-> FALSE]}

\* the options of the first build_graph
WirePairs ==
    {<<"input_noise", 1>>, <<"input_noise", 2>>, <<"hidden_noise", 3>>,
     <<"input_dropouts", 4>>, <<"hidden_dropouts", 5>>}
WireOptions == KwSeqs(WirePairs, MaxOpts)

InitBuild ==
    /\ kwargs \in BuildKwargs
    /\ phase = "new"
    /\ layers = <<>>
    /\ graphs = NoGraphs
    /\ functions = NoGraphs
    /\ calls = 0
    /\ history = {}
    /\ ret = [op |-> "none"]
    /\ file = NoFile
    /\ snapshot = <<>>
    /\ num = LiteralEnv

FirstBuildGraph == \E kw \in WireOptions : calls = 0 /\ BuildGraph(kw)

NextBuild ==
    \/ Construct
    \/ FirstBuildGraph

SpecBuild == InitBuild /\ [][NextBuild]_vars

(***************************************************************************)
(* Claims on construction and wiring (SpecBuild)                           *)
(***************************************************************************)
HasTopology == "layers" \in DOMAIN kwargs

\* C2: a topology spec of n >= 2 elements yields exactly n layers: the input
\* layer `in` for the first element, one layer per further encoding element
\* (a Layer instance is included as it is), and the decoder `out`.
C2_LayerCount ==
    (phase = "ready" /\ HasTopology /\ Len(kwargs.layers) >= 2) =>
        /\ Len(layers) = Len(kwargs.layers)
        /\ layers[1].cls = "Input"
        /\ layers[1].name = <<"in">>
        /\ layers[Len(layers)].name = <<"out">>
        /\ layers[Len(layers)].size = kwargs.layers[Len(kwargs.layers)].size
        /\ \A i \in 2..(Len(kwargs.layers) - 1) :
              kwargs.layers[i].kind = "layer" => layers[i] = kwargs.layers[i].layer

C2_Witness ==
    /\ phase = "ready"
    /\ HasTopology
    /\ Len(kwargs.layers) = 4
    /\ kwargs.layers[2].kind = "layer"
    /\ kwargs.layers[3].kind = "dict"
    /\ Len(layers) = 4

\* the `inputs` the decoder (the last layer) was called with in a cached graph
DecoderInputs(entry) == entry.outputs[Len(entry.outputs)].inputs

FourLayersDecodeFrom2 ==
    /\ phase = "ready"
    /\ HasTopology
    /\ Len(kwargs.layers) = 4
    /\ Get(kwargs, "decode_from", 1) = 2

\* C5 as stated: with decode_from=2 on a 4-layer topology the decoder is
\* passed the outputs of the layers at positions 2 and 3, in that order.
C5_Positions2And3 ==
    FourLayersDecodeFrom2 =>
        \A k \in DOMAIN graphs :
            DecoderInputs(graphs[k]) = [list |-> TRUE, of |-> <<OutRef(2), OutRef(3)>>]

\* C5 amended: with decode_from=2 on a 4-layer topology (the decoder is the
\* layer at position 3) the decoder is passed the outputs of the layers at
\* positions 1 and 2, in that order, and not only the output of position 2.
C5_Positions1And2 ==
    FourLayersDecodeFrom2 =>
        \A k \in DOMAIN graphs :
            DecoderInputs(graphs[k]) = [list |-> TRUE, of |-> <<OutRef(1), OutRef(2)>>]

C5_Witness ==
    /\ FourLayersDecodeFrom2
    /\ DOMAIN graphs # {}

\* C10 as stated: in every graph built on a miss, every middle layer was
\* called with the single preceding output, noise = hidden_noise and dropout
\* = hidden_dropouts (0 when absent); layer 0 with input_noise/input_dropouts.
C10_MiddleLayersHiddenNoise ==
    \A k \in DOMAIN graphs :
        LET e == graphs[k]
            kw == e.id.kw
        IN  /\ Len(e.outputs) >= 1 =>
                /\ e.outputs[1].noise = KwGet(kw, "input_noise", 0)
                /\ e.outputs[1].dropout = KwGet(kw, "input_dropouts", 0)
            /\ \A i \in 1..(Len(e.outputs) - 2) :
                /\ e.outputs[i + 1].inputs = [list |-> FALSE, of |-> <<OutRef(i - 1)>>]
                /\ e.outputs[i + 1].noise = KwGet(kw, "hidden_noise", 0)
                /\ e.outputs[i + 1].dropout = KwGet(kw, "hidden_dropouts", 0)

\* the outputs of the last k layers before the decoder of n layers (fewer
\* when fewer exist), in layer order
LastOutputs(n, k) == [j \in 1..Min(k, n - 1) |-> OutRef(n - 2 - Min(k, n - 1) + j)]

\* the sizes of the last k layers before the decoder
LastSizes(k) ==
    [j \in 1..Min(k, Len(layers) - 1) |->
        layers[Len(layers) - 1 - Min(k, Len(layers) - 1) + j].size]

\* C12 as stated: for decode_from <= 1 (the default, 0, a negative value) the
\* decoder is sized from the last preceding layer alone and build_graph
\* passes it only the immediately preceding output; for decode_from = k > 1
\* both use the last k preceding layers; the number of input sizes of the
\* decoder always equals the number of outputs it receives.
C12_DecoderWiringMatchesSizes ==
    (phase = "ready" /\ HasTopology) =>
        \A key \in DOMAIN graphs :
            LET n == Len(layers)
                back == Get(kwargs, "decode_from", 1)
                given == DecoderInputs(graphs[key]).of
            IN  /\ Len(layers[n].nin) = Len(given)
                /\ back <= 1 =>
                      /\ layers[n].nin = LastSizes(1)
                      /\ given = LastOutputs(n, 1)
                /\ back > 1 =>
                      /\ layers[n].nin = LastSizes(back)
                      /\ given = LastOutputs(n, back)

(***************************************************************************)
(* Claims on the caches (Spec)                                             *)
(***************************************************************************)
BuildGraphCalls == {h \in history : h.op = "build_graph"}

\* C1 as stated: any two build_graph calls whose options are the same
\* mapping (same keys, same values) return the same tuple object, and at
\* most one of them calls layer.output().
C1_SameOptionsSameTuple ==
    \A a, b \in BuildGraphCalls :
        SameMapping(a.kw, b.kw) =>
            /\ a.id = b.id
            /\ a = b \/ a.outs = 0 \/ b.outs = 0

\* two option lists that give input_noise different values and agree on
\* every other option
NoiseDiffers(a, b) ==
    /\ KwHas(a, "input_noise")
    /\ KwHas(b, "input_noise")
    /\ KwGet(a, "input_noise", 0) # KwGet(b, "input_noise", 0)
    /\ \A i \in 1..Len(a) :
          a[i][1] # "input_noise" => KwHas(b, a[i][1]) /\ KwGet(b, a[i][1], 0) = a[i][2]
    /\ \A i \in 1..Len(b) : KwHas(a, b[i][1])

\* the cache a recorded call reads and writes
CacheOf(h) == IF h.op = "build_graph" THEN graphs ELSE functions

\* C8: two requests of the same kind (build_graph, feed_forward) that differ
\* in the value of input_noise have distinct keys, got distinct objects, and
\* each object is still stored under its own key: neither request overwrote
\* or reused the entry of the other. The graph each one got was built with
\* its own input_noise.
C8_DistinctEntries ==
    \A a, b \in history :
        (a.op = b.op /\ NoiseDiffers(a.kw, b.kw)) =>
            LET ka == Hash(a.kw, layers)
                kb == Hash(b.kw, layers)
            IN  /\ ka # kb
                /\ a.id # b.id
                /\ ka \in DOMAIN CacheOf(a) /\ CacheOf(a)[ka].id = a.id
                /\ kb \in DOMAIN CacheOf(b) /\ CacheOf(b)[kb].id = b.id
                /\ CacheOf(a)[ka].outputs[1].noise = KwGet(a.kw, "input_noise", 0)
                /\ CacheOf(b)[kb].outputs[1].noise = KwGet(b.kw, "input_noise", 0)

C8_Witness ==
    /\ \E a, b \in history :
          a.op = "build_graph" /\ b.op = "build_graph" /\ NoiseDiffers(a.kw, b.kw)
    /\ \E a, b \in history :
          a.op = "feed_forward" /\ b.op = "feed_forward" /\ NoiseDiffers(a.kw, b.kw)

IsErr(m) == m.name = <<"err">>
NoErr(mons) == \A i \in 1..Len(mons) : ~IsErr(mons[i])

\* the monitors build_graph collects for the layers ls: one list per layer,
\* concatenated in layer order
LayerOrderMonitors(e) ==
    Concat([i \in 1..Len(layers) |->
        LayerOutput(layers[i], i - 1, e.outputs[i]).mon])

\* C9 as stated: the monitor list stored under a key is always the
\* layer-order concatenation made when the entry was created; loss returns
\* exactly one `err` entry, at the front, followed by those monitors and the
\* extra monitors; build_graph returns monitors with no `err` entry.
C9_CacheValuesImmutable ==
    /\ \A k \in DOMAIN graphs : graphs[k].monitors = LayerOrderMonitors(graphs[k])
    /\ ret.op = "loss" =>
          ret.monitors = LossMonitors(LayerOrderMonitors(graphs[ret.key]),
                                      graphs[ret.key].outputs)
    /\ ret.op = "build_graph" => NoErr(ret.monitors)

\* the function stored under k was compiled from the outputs and updates of
\* the graph stored under k
CompiledFrom(k) ==
    /\ functions[k].graph = graphs[k].id
    /\ functions[k].outputs = graphs[k].outputs
    /\ functions[k].updates = graphs[k].updates

\* a step removes no key from either cache
KeysKept ==
    /\ DOMAIN graphs \subseteq DOMAIN graphs'
    /\ DOMAIN functions \subseteq DOMAIN functions'

\* C11: after any sequence of build_graph, feed_forward, predict and loss
\* calls, every key of the function cache is a key of the graph cache and the
\* function under it was compiled from the outputs and updates of the graph
\* entry under the same key; no step removes a key from either cache.
C11_FunctionsFollowGraphs ==
    /\ [](\A k \in DOMAIN functions : k \in DOMAIN graphs /\ CompiledFrom(k))
    /\ [][KeysKept]_vars

\* a function is cached, loss ran on its key after it was compiled, and the
\* graph cache holds that key
C11_Witness ==
    /\ ret.op = "loss"
    /\ ret.key \in DOMAIN functions
    /\ ret.key \in DOMAIN graphs
    /\ graphs[ret.key].monitors # <<>>

(***************************************************************************)
(* SpecPersist: trained networks, save, load and load_params               *)
(***************************************************************************)
\* name='out' given to a hidden layer: two layers named `out`
PersistSaved ==
    {[layers |-> <<IntSpec(2), IntSpec(3), IntSpec(2)>>],
     [layers |-> <<IntSpec(2), [kind |-> "dict", d |-> [size |-> 3, name |-> <<"out">>]], IntSpec(2)>>]}

\* a network with a layer (hid2) that the records of PersistSaved lack
PersistKwargs ==
    PersistSaved \cup {[layers |-> <<IntSpec(2), IntSpec(3), IntSpec(3), IntSpec(2)>>]}

\* the layers ls with their parameters at the values vals, in params order
WithValues(ls, vals) ==
    [i \in 1..Len(ls) |->
        [ls[i] EXCEPT !.params =
            [j \in 1..Len(ls[i].params) |->
                vals[Len(Params(SubSeq(ls, 1, i - 1))) + j]]]]

InitPersist ==
    /\ kwargs \in PersistSaved
    /\ phase = "ready"
    /\ \E ls \in {SetupLayers(kwargs, 0)} :
       \E vals \in [1..Len(Params(ls)) -> ParamVals] :
          layers = WithValues(ls, vals)
    /\ graphs = NoGraphs
    /\ functions = NoGraphs
    /\ calls = 0
    /\ history = {}
    /\ ret = [op |-> "init"]
    /\ file = NoFile
    /\ snapshot = <<>>
    /\ num = LiteralEnv

CallNew == \E kws \in PersistKwargs, init \in InitVals : New(kws, init)
CallLoad == \E init \in InitVals : Load(init)

NextPersist ==
    \/ Save
    \/ LoadParams
    \/ CallNew
    \/ CallLoad

SpecPersist == InitPersist /\ [][NextPersist]_vars

(***************************************************************************)
(* Claims on persistence (SpecPersist)                                     *)
(***************************************************************************)
\* C3 as stated: load after save, with no override, gives a Network of the
\* same class with the same layer names and sizes, in which every parameter
\* of every layer holds the value the original held when save ran.
C3_RoundTrip ==
    ret.op = "load" =>
        /\ ret.klass = "Network"
        /\ Len(layers) = Len(snapshot)
        /\ \A i \in 1..Len(layers) :
              /\ layers[i].name = snapshot[i].name
              /\ layers[i].size = snapshot[i].size
              /\ layers[i].params = snapshot[i].params

\* the record holds values under the key of the layer named name
InRecord(name) == (name \o <<"-values">>) \in DOMAIN file.values
\* the values the record holds for that layer
Recorded(name) == file.values[name \o <<"-values">>]

\* parameters p after the values v were copied into them, in list order
Copied(p, v) == [j \in 1..Len(p) |-> IF j <= Len(v) THEN v[j] ELSE p[j]]

\* a load_params call returned or raised, on layers of which at least one
\* has no key in the record
LoadParamsWithAbsentLayer ==
    /\ ret.op = "load_params"
    /\ \E i \in 1..Len(ret.before) : ~InRecord(ret.before[i].name)

\* C4 as stated: load_params on a Network with a layer that has no key in
\* the record does not fail; that layer keeps its values and every layer
\* whose name is in the record receives the stored values.
C4_SilentSkip ==
    LoadParamsWithAbsentLayer =>
        /\ ret.raised = "none"
        /\ \A i \in 1..Len(layers) :
              layers[i].params =
                  IF InRecord(layers[i].name)
                  THEN Copied(ret.before[i].params, Recorded(layers[i].name))
                  ELSE ret.before[i].params

\* C4 amended: load_params on a Network with a layer that has no key in the
\* record raises KeyError at the first such layer; the layers before it have
\* received the stored values, that layer and every later layer keep theirs.
C4_RaisesKeyError ==
    LoadParamsWithAbsentLayer =>
        /\ ret.raised = "KeyError"
        /\ \A i \in 1..Len(layers) :
              layers[i].params =
                  IF \A j \in 1..i : InRecord(layers[j].name)
                  THEN Copied(ret.before[i].params, Recorded(layers[i].name))
                  ELSE ret.before[i].params

\* a layer before the absent one was set, and a layer after it whose name is
\* in the record kept values that differ from the stored ones
C4_Witness ==
    /\ LoadParamsWithAbsentLayer
    /\ \E i, m, k \in 1..Len(layers) :
          /\ i < m /\ m < k
          /\ ~InRecord(layers[m].name)
          /\ layers[i].params # ret.before[i].params
          /\ InRecord(layers[k].name)
          /\ layers[k].params # Copied(ret.before[k].params, Recorded(layers[k].name))

(***************************************************************************)
(* SpecError: error evaluated on 2x2 matrices                              *)
(***************************************************************************)
MatVals == {0, 1}
Mats == [1..2 -> [1..2 -> MatVals]]

InitError ==
    /\ kwargs \in {[weighted |-> TRUE], [weighted |-> FALSE]}
    /\ phase = "new"
    /\ layers = <<>>
    /\ graphs = NoGraphs
    /\ functions = NoGraphs
    /\ calls = 0
    /\ history = {}
    /\ ret = [op |-> "none"]
    /\ file = NoFile
    /\ snapshot = <<>>
    /\ \E x \in Mats, y \in Mats, w \in Mats :
          num = [LiteralEnv EXCEPT !.x = x, !.y = y, !.w = w]

NextError ==
    \/ Construct
    \/ ErrorCall

SpecError == InitError /\ [][NextError]_vars

(***************************************************************************)
(* Claims on error (SpecError)                                             *)
(***************************************************************************)
\* the sum of the entries of a 2x2 matrix
Sum2x2(m) == m[1][1] + m[1][2] + m[2][1] + m[2][2]

SquaredError ==
    [r \in 1..2 |-> [c \in 1..2 |->
        (num.y[r][c] - num.x[r][c]) * (num.y[r][c] - num.x[r][c])]]
WeightedSquaredError ==
    [r \in 1..2 |-> [c \in 1..2 |-> num.w[r][c] * SquaredError[r][c]]]

LiteralExample ==
    /\ num.x = <<<<1, 0>>, <<0, 1>>>>
    /\ num.y = <<<<0, 0>>, <<0, 0>>>>
    /\ num.w = <<<<1, 1>>, <<0, 0>>>>

\* C7 as stated: the error is mean((y-x)^2) unweighted and
\* sum(w*(y-x)^2)/sum(w) weighted; on the literal example the unweighted
\* error is 0.5 and the weighted error is 1.0.
C7_LiteralWeightedIsOne ==
    ret.op = "error" =>
        /\ ~IsWeighted(kwargs) => QEq(ret.value, Q(Sum2x2(SquaredError), 4))
        /\ (IsWeighted(kwargs) /\ Sum2x2(num.w) # 0) =>
              QEq(ret.value, Q(Sum2x2(WeightedSquaredError), Sum2x2(num.w)))
        /\ (LiteralExample /\ ~IsWeighted(kwargs)) => QEq(ret.value, Q(1, 2))
        /\ (LiteralExample /\ IsWeighted(kwargs)) => QEq(ret.value, Q(1, 1))

\* C7 amended: the error is mean((y-x)^2) unweighted and
\* sum(w*(y-x)^2)/sum(w) weighted; on the literal example the unweighted
\* error is 0.5 and the weighted error is 0.5 as well (sum(w*(y-x)^2) = 1,
\* sum(w) = 2).
C7_LiteralWeightedIsHalf ==
    ret.op = "error" =>
        /\ ~IsWeighted(kwargs) => QEq(ret.value, Q(Sum2x2(SquaredError), 4))
        /\ (IsWeighted(kwargs) /\ Sum2x2(num.w) # 0) =>
              QEq(ret.value, Q(Sum2x2(WeightedSquaredError), Sum2x2(num.w)))
        /\ (LiteralExample /\ ~IsWeighted(kwargs)) => QEq(ret.value, Q(1, 2))
        /\ (LiteralExample /\ IsWeighted(kwargs)) => QEq(ret.value, Q(1, 2))

C7_Witness ==
    /\ ret.op = "error"
    /\ LiteralExample
    /\ IsWeighted(kwargs)

(***************************************************************************)
(* SpecLoss: loss evaluated for a fixed parameter state                    *)
(***************************************************************************)
LossPairs == {<<o, v>> : o \in {Regularizers[i] : i \in 1..Len(Regularizers)}, v \in {-1, 2}}
LossOptions == KwSeqs(LossPairs, MaxOpts)

LossKwargs ==
    {[layers |-> <<IntSpec(2), IntSpec(3), IntSpec(2)>>],
     [layers |-> <<IntSpec(2), IntSpec(3), IntSpec(3), IntSpec(2)>>, weighted |-> TRUE]}

InitLoss ==
    /\ kwargs \in LossKwargs
    /\ phase = "ready"
    /\ \E ls \in {SetupLayers(kwargs, 0)} :
       \E vals \in {[i \in 1..Len(Params(ls)) |-> IF i % 2 = 0 THEN -2 ELSE 1],
                    [i \in 1..Len(Params(ls)) |-> IF i % 3 = 0 THEN 3 ELSE -1]} :
          layers = WithValues(ls, vals)
    /\ graphs = NoGraphs
    /\ functions = NoGraphs
    /\ calls = 0
    /\ history = {}
    /\ ret = [op |-> "init"]
    /\ file = NoFile
    /\ snapshot = <<>>
    /\ \E h \in {<<<<1>>, <<-2>>>>, <<<<2, -1>>, <<0, 3>>>>} :
          num = [LiteralEnv EXCEPT !.h = [i \in DOMAIN LiteralEnv.h |-> h]]

FirstLoss == \E kw \in LossOptions : calls = 0 /\ Loss(kw)

NextLoss == FirstLoss

SpecLoss == InitLoss /\ [][NextLoss]_vars

(***************************************************************************)
(* Claims on loss (SpecLoss)                                               *)
(***************************************************************************)
\* the reconstruction error of the state
ReconstructionError == ErrorValue(IsWeighted(kwargs), num.y, num.x, num.w)

\* the value given to an option by the last loss call, 0 when absent
OptionValue(o) == KwGet(ret.kw, o, 0)

\* an option value passes the gate: non-zero, or greater than zero
NonZero == "non-zero"
Positive == "positive"
Passes(gate, v) == IF gate = NonZero THEN v # 0 ELSE v > 0

\* the sum of value x term over the options, from the i-th of the five on,
\* whose value passes the gate
RECURSIVE GatedSum(_, _)
GatedSum(gate, i) ==
    IF i > Len(Regularizers) THEN Q(0, 1)
    ELSE QAdd(IF Passes(gate, OptionValue(Regularizers[i]))
              THEN QMul(OptionValue(Regularizers[i]), TermValue(Regularizers[i], layers, num))
              ELSE Q(0, 1),
              GatedSum(gate, i + 1))

\* the sum of the squares of all parameters
SumOfSquaredParams ==
    SumSeq([i \in 1..Len(layers) |->
              SumSeq([j \in 1..Len(layers[i].params) |->
                        layers[i].params[j] * layers[i].params[j]])])

\* the last loss call set weight_l2 and no other option
OnlyWeightL2 == Len(ret.kw) = 1 /\ ret.kw[1][1] = "weight_l2"

\* C6 as stated: the loss is the error plus the sum of value x term over
\* exactly the options whose value is non-zero; with only weight_l2 non-zero
\* the loss exceeds the error by weight_l2 x the sum of squared parameters.
C6_NonZeroGate ==
    ret.op = "loss" =>
        /\ QEq(ret.value, QAdd(ReconstructionError, GatedSum(NonZero, 1)))
        /\ (OnlyWeightL2 /\ OptionValue("weight_l2") # 0) =>
              QEq(ret.value,
                  QAdd(ReconstructionError,
                       Q(OptionValue("weight_l2") * SumOfSquaredParams, 1)))

\* C6 amended: the loss is the error plus the sum of value x term over
\* exactly the options whose value is greater than zero (an option with a
\* negative value contributes nothing); with only weight_l2 greater than
\* zero the loss exceeds the error by weight_l2 x the sum of squared
\* parameters.
C6_PositiveGate ==
    ret.op = "loss" =>
        /\ QEq(ret.value, QAdd(ReconstructionError, GatedSum(Positive, 1)))
        /\ (OnlyWeightL2 /\ OptionValue("weight_l2") > 0) =>
              QEq(ret.value,
                  QAdd(ReconstructionError,
                       Q(OptionValue("weight_l2") * SumOfSquaredParams, 1)))
        /\ (\A i \in 1..Len(ret.kw) : ret.kw[i][2] <= 0) =>
              QEq(ret.value, ReconstructionError)

\* a loss call with one option greater than zero, whose term was added, and
\* weight_l2 negative
C6_Witness ==
    /\ ret.op = "loss"
    /\ Len(ret.kw) = 2
    /\ ret.kw[1][2] > 0
    /\ ret.kw[2][2] < 0
    /\ ret.kw[2][1] = "weight_l2"
    /\ ~QEq(ret.value, ReconstructionError)

====
